---- MODULE Spec2Model ----
(***************************************************************************)
(* A model of the hand-rolled String of src/src/String.hpp: a growable,    *)
(* null-terminated, exclusively owned character buffer, together with the  *)
(* heap it allocates from.  Every public member function is one action;    *)
(* the member functions themselves are operators over an explicit heap,    *)
(* written statement by statement after the C++ source.  The cstr routines *)
(* of src/src/strings/string_utils.h are modelled the same way, loop by    *)
(* loop, with a calling program of their own.                              *)
(***************************************************************************)
EXTENDS Integers, Sequences, FiniteSets, TLC

(***************************************************************************)
(* Bounds of the exploration.                                              *)
(***************************************************************************)
MaxRegions == 3    \* regions the heap can hold at once; beyond it, new[] throws
MaxLen == 2        \* longest caller-supplied C string (without terminator)
MaxSize == 2       \* a program with one String grows it up to this m_size
MaxReserve == 1    \* largest argument passed to reserve
BufLen == 5        \* chars of the caller's array the cstr routines write into
MaxPushes == 110   \* push_back calls of the program that fills one String in a loop
MaxRun == 10       \* a program handling long runs of one char grows its String up to this m_size

Slots == {"a", "b"}           \* the String variables of the calling program
Byte == {0, 1, 2}             \* char values; 0 is '\0'
NonZero == Byte \ {0}
Uninit == -1                  \* a char of new char[n] that was never written
Null == 0                     \* nullptr
RegionIds == 1..MaxRegions

(***************************************************************************)
(* Caller-supplied const char* arguments: nullptr, a sentinel-terminated   *)
(* array owned by the caller, or the c_str() view of a String (a pointer   *)
(* to the first char of one of the heap's regions).                        *)
(***************************************************************************)
CStrings == {Append(q, 0) : q \in UNION {[1..k -> NonZero] : k \in 0..MaxLen}}

NullSrc == [kind |-> "null", mem |-> << >>, reg |-> Null]
Lit(q) == [kind |-> "lit", mem |-> q, reg |-> Null]
View(p) == [kind |-> "view", mem |-> << >>, reg |-> p]

(***************************************************************************)
(* The heap.  W is a record [heap, faults]: heap maps a region to its      *)
(* liveness and its chars, faults collects the memory errors committed.    *)
(***************************************************************************)
FreeIds(W) == {r \in RegionIds : ~W.heap[r].live}

\* new char[...] succeeds unless the allocator refuses or the heap is full
CanAlloc(W, refuse) == ~refuse /\ FreeIds(W) # {}

NewPtr(W) == CHOOSE r \in FreeIds(W) : \A q \in FreeIds(W) : r <= q

new_array(W, n) ==
    [W EXCEPT !.heap[NewPtr(W)] = [live |-> TRUE, mem |-> [i \in 1..n |-> Uninit]]]

delete_array(W, p) ==
    IF p = Null THEN W
    ELSE IF W.heap[p].live
         THEN [W EXCEPT !.heap[p] = [live |-> FALSE, mem |-> << >>]]
         ELSE [W EXCEPT !.faults = @ \cup {"double_free"}]

\* p[off .. off+Len(bytes)-1] = bytes   (off counts from 0)
store(W, p, off, bytes) ==
    IF p = Null \/ ~W.heap[p].live
    THEN [W EXCEPT !.faults = @ \cup {"write_released"}]
    ELSE IF off + Len(bytes) > Len(W.heap[p].mem)
         THEN [W EXCEPT !.faults = @ \cup {"overflow"}]
         ELSE [W EXCEPT !.heap[p].mem =
                   [i \in 1..Len(@) |->
                       IF i > off /\ i <= off + Len(bytes) THEN bytes[i - off] ELSE @[i]]]

\* the chars behind a const char*
Mem(W, s) == IF s.kind = "lit" THEN s.mem ELSE W.heap[s.reg].mem

Released(W, s) == s.kind = "view" /\ ~W.heap[s.reg].live

RECURSIVE scan(_, _)
scan(mem, i) == IF i >= Len(mem) \/ mem[i + 1] = 0 THEN i ELSE scan(mem, i + 1)

strlen(mem) == scan(mem, 0)

\* memcpy(dst + off, s, n); junk is what a read of released storage yields
memcpy(W, dst, off, s, n, junk) ==
    IF Released(W, s)
    THEN store([W EXCEPT !.faults = @ \cup {"read_released"}], dst, off, SubSeq(junk, 1, n))
    ELSE store(W, dst, off, SubSeq(Mem(W, s), 1, n))

(***************************************************************************)
(* class String.  A member function maps the heap and *this to a result    *)
(* [W, self, err]; err is the exception that left the function, if any.    *)
(***************************************************************************)
Str(p, n, c) == [m_data |-> p, m_size |-> n, m_capacity |-> c]

NoStr == Str(Null, 0, 0)

\* F(v), with v evaluated once
Let(v, F(_)) == CHOOSE y \in {F(x) : x \in {v}} : TRUE

Ret(W, self) == [W |-> W, self |-> self, err |-> "none"]

Throw(W, self, e) == [W |-> W, self |-> self, err |-> e]

\* allocate_exact with new char[n], no room for the terminator
allocate_exact_short(W, self, n, refuse) ==
    IF ~CanAlloc(W, refuse) THEN Throw(W, self, "bad_alloc")
    ELSE Ret(new_array(W, n), [self EXCEPT !.m_data = NewPtr(W), !.m_capacity = n])

allocate_exact(W, self, n, refuse) ==
    IF ~CanAlloc(W, refuse) THEN Throw(W, self, "bad_alloc")
    ELSE Ret(new_array(W, n + 1), [self EXCEPT !.m_data = NewPtr(W), !.m_capacity = n])

\* String()
String_default(W, refuse) ==
    IF ~CanAlloc(W, refuse) THEN Throw(W, NoStr, "bad_alloc")
    ELSE Ret(store(new_array(W, 1), NewPtr(W), 0, <<0>>), Str(NewPtr(W), 0, 0))

\* String(const char*) that keeps the caller's pointer when it points into the heap
String_cstr_adopt(W, s, refuse) ==
    IF s.kind = "null" THEN Throw(W, NoStr, "invalid_argument")
    ELSE LET n == strlen(Mem(W, s))
         IN IF s.kind = "view" THEN Ret(W, Str(s.reg, n, n))
            ELSE Let(allocate_exact(W, NoStr, n, refuse), LAMBDA a :
                 IF a.err # "none" THEN a
                 ELSE LET W1 == memcpy(a.W, a.self.m_data, 0, s, n, << >>)
                          W2 == store(W1, a.self.m_data, n, <<0>>)
                      IN Ret(W2, [a.self EXCEPT !.m_size = n]))

\* String(const char*) that tests s only after it has allocated a terminator
String_cstr_check_late(W, s, refuse) ==
    IF ~CanAlloc(W, refuse) THEN Throw(W, NoStr, "bad_alloc")
    ELSE IF s.kind = "null" THEN Throw(new_array(W, 1), NoStr, "invalid_argument")
    ELSE LET n == strlen(Mem(W, s))
         IN Let(allocate_exact(W, NoStr, n, refuse), LAMBDA a :
            IF a.err # "none" THEN a
            ELSE LET W1 == memcpy(a.W, a.self.m_data, 0, s, n, << >>)
                     W2 == store(W1, a.self.m_data, n, <<0>>)
                 IN Ret(W2, [a.self EXCEPT !.m_size = n]))

\* explicit String(const char* s)
String_cstr(W, s, refuse) ==
    IF s.kind = "null" THEN Throw(W, NoStr, "invalid_argument")
    ELSE LET n == strlen(Mem(W, s))
         IN Let(allocate_exact(W, NoStr, n, refuse), LAMBDA a :
            IF a.err # "none" THEN a
            ELSE LET W1 == memcpy(a.W, a.self.m_data, 0, s, n, << >>)
                     W2 == store(W1, a.self.m_data, n, <<0>>)
                 IN Ret(W2, [a.self EXCEPT !.m_size = n]))

\* a member-wise copy: both Strings point at one region
String_copy_shallow(W, other, refuse) ==
    Ret(W, Str(other.m_data, other.m_size, other.m_capacity))

\* String(const String& other)
String_copy(W, other, refuse) ==
    Let(allocate_exact(W, NoStr, other.m_size, refuse), LAMBDA a :
        IF a.err # "none" THEN a
        ELSE LET W1 == memcpy(a.W, a.self.m_data, 0, View(other.m_data),
                              other.m_size + 1, << >>)
             IN Ret(W1, [a.self EXCEPT !.m_size = other.m_size]))

\* a move that gives other its fresh region but leaves its m_size and m_capacity
String_move_keep(W, other, refuse) ==
    LET self == Str(other.m_data, other.m_size, other.m_capacity)
    IN IF ~CanAlloc(W, refuse)
       THEN [W |-> W, self |-> self, other |-> other, err |-> "terminate"]
       ELSE [W |-> store(new_array(W, 1), NewPtr(W), 0, <<0>>),
             self |-> self,
             other |-> Str(NewPtr(W), other.m_size, other.m_capacity),
             err |-> "none"]

\* String(String&& other) noexcept; the result also carries the drained other
String_move(W, other, refuse) ==
    LET self == Str(other.m_data, other.m_size, other.m_capacity)
    IN IF ~CanAlloc(W, refuse)
       THEN [W |-> W, self |-> self, other |-> other, err |-> "terminate"]
       ELSE [W |-> store(new_array(W, 1), NewPtr(W), 0, <<0>>),
             self |-> self,
             other |-> Str(NewPtr(W), 0, 0),
             err |-> "none"]

\* ~String()
String_destroy(W, self) == delete_array(W, self.m_data)

\* void swap(String& other) noexcept
swap(self, other) ==
    [self |-> Str(other.m_data, other.m_size, other.m_capacity),
     other |-> Str(self.m_data, self.m_size, self.m_capacity)]

\* operator= whose parameter is never destroyed
operator_assign_leak(W, self, other) ==
    Ret(W, swap(self, other).self)

\* String& operator=(String other) noexcept: the body, given the parameter
operator_assign(W, self, other) ==
    LET x == swap(self, other)
    IN Ret(String_destroy(W, x.other), x.self)

\* void clear() noexcept
clear(W, self) ==
    LET s1 == [self EXCEPT !.m_size = 0]
    IN Ret(store(W, s1.m_data, 0, <<0>>), s1)

\* reserve that copies the chars without their terminator
reserve_drop_terminator(W, self, new_cap, refuse) ==
    IF new_cap <= self.m_capacity THEN Ret(W, self)
    ELSE IF ~CanAlloc(W, refuse) THEN Throw(W, self, "bad_alloc")
    ELSE LET newbuf == NewPtr(W)
             W1 == new_array(W, new_cap + 1)
             W2 == memcpy(W1, newbuf, 0, View(self.m_data), self.m_size, << >>)
             W3 == delete_array(W2, self.m_data)
         IN Ret(W3, [self EXCEPT !.m_data = newbuf, !.m_capacity = new_cap])

\* reserve that releases the old region before it asks for the new one
reserve_release_first(W, self, new_cap, refuse) ==
    IF new_cap <= self.m_capacity THEN Ret(W, self)
    ELSE LET old == W.heap[self.m_data].mem
             W0 == delete_array(W, self.m_data)
         IN IF ~CanAlloc(W0, refuse) THEN Throw(W0, self, "bad_alloc")
            ELSE LET newbuf == NewPtr(W0)
                     W1 == new_array(W0, new_cap + 1)
                     W2 == store(W1, newbuf, 0, SubSeq(old, 1, self.m_size + 1))
                 IN Ret(W2, [self EXCEPT !.m_data = newbuf, !.m_capacity = new_cap])

\* void reserve(std::size_t new_cap)
reserve(W, self, new_cap, refuse) ==
    IF new_cap <= self.m_capacity THEN Ret(W, self)
    ELSE IF ~CanAlloc(W, refuse) THEN Throw(W, self, "bad_alloc")
    ELSE LET newbuf == NewPtr(W)
             W1 == new_array(W, new_cap + 1)
             W2 == memcpy(W1, newbuf, 0, View(self.m_data), self.m_size + 1, << >>)
             W3 == delete_array(W2, self.m_data)
         IN Ret(W3, [self EXCEPT !.m_data = newbuf, !.m_capacity = new_cap])

\* shrink_to_fit that leaves the String as it is
shrink_to_fit_lazy(W, self, refuse) == Ret(W, self)

\* void shrink_to_fit()
shrink_to_fit(W, self, refuse) ==
    IF self.m_capacity = self.m_size THEN Ret(W, self)
    ELSE IF ~CanAlloc(W, refuse) THEN Throw(W, self, "bad_alloc")
    ELSE LET newbuf == NewPtr(W)
             W1 == new_array(W, self.m_size + 1)
             W2 == memcpy(W1, newbuf, 0, View(self.m_data), self.m_size + 1, << >>)
             W3 == delete_array(W2, self.m_data)
         IN Ret(W3, [self EXCEPT !.m_data = newbuf, !.m_capacity = self.m_size])

\* growth to the size asked for and no further
new_cap_for_exact(m_capacity, desired_size) == desired_size

\* the growth step alone, never raised to the size asked for
new_cap_for_step_only(m_capacity, desired_size) ==
    IF m_capacity = 0 THEN desired_size ELSE (m_capacity * 3) \div 2 + 8

\* the capacity ensure_capacity_for asks reserve for
new_cap_for(m_capacity, desired_size) ==
    LET c == IF m_capacity = 0 THEN desired_size ELSE (m_capacity * 3) \div 2 + 8
    IN IF c < desired_size THEN desired_size ELSE c

\* void ensure_capacity_for(std::size_t desired_size)
ensure_capacity_for(W, self, desired_size, refuse) ==
    IF desired_size <= self.m_capacity THEN Ret(W, self)
    ELSE reserve(W, self, new_cap_for(self.m_capacity, desired_size), refuse)

\* push_back that does not write the terminator after the new char
push_back_unterminated(W, self, c, refuse) ==
    Let(ensure_capacity_for(W, self, self.m_size + 1, refuse), LAMBDA e :
        IF e.err # "none" THEN e
        ELSE Ret(store(e.W, e.self.m_data, e.self.m_size, <<c>>),
                 [e.self EXCEPT !.m_size = @ + 1]))

\* void push_back(char c)
push_back(W, self, c, refuse) ==
    Let(ensure_capacity_for(W, self, self.m_size + 1, refuse), LAMBDA e :
        IF e.err # "none" THEN e
        ELSE LET W1 == store(e.W, e.self.m_data, e.self.m_size, <<c>>)
                 s1 == [e.self EXCEPT !.m_size = @ + 1]
             IN Ret(store(W1, s1.m_data, s1.m_size, <<0>>), s1))

\* void append(const char* s)
append(W, self, s, junk, refuse) ==
    IF s.kind = "null" THEN Throw(W, self, "invalid_argument")
    ELSE LET n == strlen(Mem(W, s))
         IN Let(ensure_capacity_for(W, self, self.m_size + n, refuse), LAMBDA e :
            IF e.err # "none" THEN e
            ELSE LET W1 == memcpy(e.W, e.self.m_data, e.self.m_size, s, n, junk)
                     s1 == [e.self EXCEPT !.m_size = @ + n]
                 IN Ret(store(W1, s1.m_data, s1.m_size, <<0>>), s1))

\* assign that always builds a temporary and swaps, whatever the capacity
assign_always_fresh(W, self, s, refuse) ==
    IF s.kind = "null" THEN Throw(W, self, "invalid_argument")
    ELSE Let(String_cstr(W, s, refuse), LAMBDA tmp :
         IF tmp.err # "none" THEN Throw(W, self, tmp.err)
         ELSE LET x == swap(self, tmp.self)
              IN Ret(String_destroy(tmp.W, x.other), x.self))

\* assign whose temporary is never destroyed on the growing path
assign_keep_old(W, self, s, refuse) ==
    IF s.kind = "null" THEN Throw(W, self, "invalid_argument")
    ELSE LET n == strlen(Mem(W, s))
         IN IF n > self.m_capacity
            THEN Let(String_cstr(W, s, refuse), LAMBDA tmp :
                 IF tmp.err # "none" THEN Throw(W, self, tmp.err)
                 ELSE Ret(tmp.W, swap(self, tmp.self).self))
            ELSE LET W1 == memcpy(W, self.m_data, 0, s, n, << >>)
                     W2 == store(W1, self.m_data, n, <<0>>)
                 IN Ret(W2, [self EXCEPT !.m_size = n])

\* assign that empties *this before it builds the replacement
assign_clear_first(W, self, s, refuse) ==
    IF s.kind = "null" THEN Throw(W, self, "invalid_argument")
    ELSE LET n == strlen(Mem(W, s))
             c == clear(W, self)
         IN IF n > self.m_capacity
            THEN Let(String_cstr(c.W, s, refuse), LAMBDA tmp :
                 IF tmp.err # "none" THEN Throw(c.W, c.self, tmp.err)
                 ELSE LET x == swap(c.self, tmp.self)
                      IN Ret(String_destroy(tmp.W, x.other), x.self))
            ELSE LET W1 == memcpy(W, self.m_data, 0, s, n, << >>)
                     W2 == store(W1, self.m_data, n, <<0>>)
                 IN Ret(W2, [self EXCEPT !.m_size = n])

\* void assign(const char* s)
assign(W, self, s, refuse) ==
    IF s.kind = "null" THEN Throw(W, self, "invalid_argument")
    ELSE LET n == strlen(Mem(W, s))
         IN IF n > self.m_capacity
            THEN Let(String_cstr(W, s, refuse), LAMBDA tmp :
                 IF tmp.err # "none" THEN Throw(W, self, tmp.err)
                 ELSE LET x == swap(self, tmp.self)
                      IN Ret(String_destroy(tmp.W, x.other), x.self))
            ELSE LET W1 == memcpy(W, self.m_data, 0, s, n, << >>)
                     W2 == store(W1, self.m_data, n, <<0>>)
                 IN Ret(W2, [self EXCEPT !.m_size = n])

\* char& operator[](std::size_t i), used to write c
index_write(W, self, i, c) == Ret(store(W, self.m_data, i, <<c>>), self)

\* at with the bound test i > m_size
at_past_end(W, self, i) ==
    IF i > self.m_size
    THEN [W |-> W, self |-> self, err |-> "out_of_range", ref |-> [reg |-> Null, off |-> 0]]
    ELSE [W |-> W, self |-> self, err |-> "none", ref |-> [reg |-> self.m_data, off |-> i]]

\* char& at(std::size_t i); ref is the char the returned reference denotes
at(W, self, i) ==
    IF i >= self.m_size
    THEN [W |-> W, self |-> self, err |-> "out_of_range", ref |-> [reg |-> Null, off |-> 0]]
    ELSE [W |-> W, self |-> self, err |-> "none", ref |-> [reg |-> self.m_data, off |-> i]]

\* String operator+(const String& lhs, const char* rhs), and with
\* rhs == other.c_str() the overload taking a String.  k is the allocation
\* the allocator refuses (0: none); the return of out by value is either
\* elided or made by the move constructor.
operator_plus(W, lhs, rhs, k, elide) ==
    Let(String_copy(W, lhs, k = 1), LAMBDA out :
        IF out.err # "none" THEN Throw(W, NoStr, out.err)
        ELSE Let(append(out.W, out.self, rhs, << >>, k = 2), LAMBDA a :
             IF a.err # "none"
             THEN Throw(String_destroy(a.W, a.self), NoStr, a.err)
             ELSE IF elide THEN Ret(a.W, a.self)
             ELSE Let(String_move(a.W, a.self, k = 3), LAMBDA m :
                  IF m.err # "none" THEN Throw(a.W, NoStr, m.err)
                  ELSE Ret(String_destroy(m.W, m.other), m.self))))

(***************************************************************************)
(* The calling program.  It has one String variable (a) or two (a and b),  *)
(* each alive or not, and calls the public operations in any order with    *)
(* any arguments; the allocator may refuse any request.  last is the       *)
(* operation called last, the variable it was called on and the exception  *)
(* it ended with; faults are the memory errors that call committed.        *)
(***************************************************************************)
VARIABLES prog, heap, faults, objs, alive, last, locals

vars == <<prog, heap, faults, objs, alive, last, locals>>

\* a call starts from the heap as it is, with no memory error committed yet
World == [heap |-> heap, faults |-> {}]

Running == last.err # "terminate"

\* the String variables of the program
InUse == IF prog \in {"one", "long"} THEN {"a"} ELSE Slots

\* the m_size up to which the program grows its Strings: programs with two
\* Strings are explored with Strings of at most one char
Limit == IF prog = "one" THEN MaxSize ELSE IF prog = "long" THEN MaxRun ELSE 1

\* const char* arguments: nullptr or a caller-owned array ...
Arrays == {NullSrc} \cup {Lit(q) : q \in CStrings}

\* ... or the c_str() of a live String
Views(S) == {View(objs[u].m_data) : u \in S \cap alive}

\* operator+ allocates for the copy, for the growth and for the returned value:
\* <<the request refused (0: none), whether the return is elided>>
PlusRuns == {<<0, TRUE>>, <<0, FALSE>>, <<1, TRUE>>, <<2, TRUE>>, <<3, FALSE>>}

\* operator+ is explored under every run of the allocator when its right
\* operand is a c_str() view, and with no refusal when it is a caller's array
PlusRunsOn(s) == IF s.kind = "view" THEN PlusRuns ELSE {<<0, TRUE>>}

SrcLen(s) == IF s.kind = "null" THEN 0 ELSE strlen(Mem(World, s))

\* what the chars of a region may read as once the region is released
Junk(t, s) ==
    IF s.kind = "view" /\ s.reg = objs[t].m_data THEN [1..SrcLen(s) -> Byte] ELSE {<< >>}

Init ==
    /\ prog \in {"one", "two"}
    /\ heap = [r \in RegionIds |-> [live |-> FALSE, mem |-> << >>]]
    /\ faults = {}
    /\ objs = [t \in Slots |-> NoStr]
    /\ alive = {}
    /\ last = [op |-> "start", obj |-> "a", err |-> "none"]
    /\ locals = << >>

\* a refusal of the allocator is one that was met: the call asked and failed
Met(refuse, r) == refuse => r.err \in {"bad_alloc", "terminate"}

\* the call returned or threw: the heap and *this are as the function left them
Finish(op, t, r) ==
    /\ last' = [op |-> op, obj |-> t, err |-> r.err]
    /\ heap' = r.W.heap
    /\ faults' = r.W.faults
    /\ objs' = [objs EXCEPT ![t] = r.self]
    /\ UNCHANGED <<prog, locals>>

\* a constructor that throws leaves no object behind
Construct(op, t, r) ==
    /\ Finish(op, t, r)
    /\ alive' = IF r.err = "none" THEN alive \cup {t} ELSE alive

\* std::terminate: the program is gone
Terminate(op, t) ==
    /\ last' = [op |-> op, obj |-> t, err |-> "terminate"]
    /\ faults' = {}
    /\ UNCHANGED <<prog, locals, heap, objs, alive>>

\* String t;
CtorDefault(t, refuse) ==
    /\ Running /\ t \in InUse \ alive
    /\ \E r \in {String_default(World, refuse)} :
          Met(refuse, r) /\ Construct("String()", t, r)

\* String t(s);
CtorCStr(t, s, refuse) ==
    /\ Running /\ t \in InUse \ alive /\ SrcLen(s) <= Limit
    /\ \E r \in {String_cstr(World, s, refuse)} :
          Met(refuse, r) /\ Construct("String(const char*)", t, r)

\* String t = u;
CtorCopy(t, u, refuse) ==
    /\ Running /\ t \in InUse \ alive /\ u \in alive
    /\ \E r \in {String_copy(World, objs[u], refuse)} :
          Met(refuse, r) /\ Construct("String(const String&)", t, r)

\* String t = std::move(u);
CtorMove(t, u, refuse) ==
    /\ Running /\ t \in InUse \ alive /\ u \in alive
    /\ \E m \in {String_move(World, objs[u], refuse)} :
          /\ Met(refuse, m)
          /\ IF m.err = "terminate" THEN Terminate("String(String&&)", t)
             ELSE /\ last' = [op |-> "String(String&&)", obj |-> t, err |-> "none"]
                  /\ heap' = m.W.heap
                  /\ faults' = m.W.faults
                  /\ objs' = [objs EXCEPT ![t] = m.self, ![u] = m.other]
                  /\ alive' = alive \cup {t}
                  /\ UNCHANGED <<prog, locals>>

\* t = u;  the parameter of operator= is copy-constructed by the caller
AssignCopy(t, u, refuse) ==
    /\ Running /\ t \in alive /\ u \in alive
    /\ \E other \in {String_copy(World, objs[u], refuse)} :
          /\ Met(refuse, other)
          /\ IF other.err # "none"
             THEN Finish("operator=(copy)", t, Throw(World, objs[t], other.err))
             ELSE \E r \in {operator_assign(other.W, objs[t], other.self)} :
                     Finish("operator=(copy)", t, r)
    /\ UNCHANGED alive

\* t = std::move(u);  the parameter of operator= is move-constructed
AssignMove(t, u, refuse) ==
    /\ Running /\ t \in alive /\ u \in alive
    /\ \E m \in {String_move(World, objs[u], refuse)} :
          /\ Met(refuse, m)
          /\ IF m.err = "terminate" THEN Terminate("operator=(move)", t)
             ELSE \E drained \in {[objs EXCEPT ![u] = m.other]} :
                  \E r \in {operator_assign(m.W, drained[t], m.self)} :
                     /\ last' = [op |-> "operator=(move)", obj |-> t, err |-> "none"]
                     /\ heap' = r.W.heap
                     /\ faults' = r.W.faults
                     /\ objs' = [drained EXCEPT ![t] = r.self]
                     /\ UNCHANGED <<prog, locals, alive>>

\* t goes out of scope
Dtor(t) ==
    /\ Running /\ t \in alive
    /\ \E r \in {Ret(String_destroy(World, objs[t]), NoStr)} : Finish("~String", t, r)
    /\ alive' = alive \ {t}

Clear(t) ==
    /\ Running /\ t \in alive
    /\ \E r \in {clear(World, objs[t])} : Finish("clear", t, r)
    /\ UNCHANGED alive

Assign(t, s, refuse) ==
    /\ Running /\ t \in alive /\ SrcLen(s) <= Limit
    /\ \E r \in {assign(World, objs[t], s, refuse)} :
          Met(refuse, r) /\ Finish("assign", t, r)
    /\ UNCHANGED alive

PushBack(t, c, refuse) ==
    /\ Running /\ t \in alive /\ objs[t].m_size < Limit
    /\ \E r \in {push_back(World, objs[t], c, refuse)} :
          Met(refuse, r) /\ Finish("push_back", t, r)
    /\ UNCHANGED alive

AppendTo(t, s, junk, refuse) ==
    /\ Running /\ t \in alive /\ objs[t].m_size + SrcLen(s) <= Limit
    /\ \E r \in {append(World, objs[t], s, junk, refuse)} :
          Met(refuse, r) /\ Finish("append", t, r)
    /\ UNCHANGED alive

Reserve(t, n, refuse) ==
    /\ Running /\ t \in alive
    /\ \E r \in {reserve(World, objs[t], n, refuse)} :
          Met(refuse, r) /\ Finish("reserve", t, r)
    /\ UNCHANGED alive

ShrinkToFit(t, refuse) ==
    /\ Running /\ t \in alive
    /\ \E r \in {shrink_to_fit(World, objs[t], refuse)} :
          Met(refuse, r) /\ Finish("shrink_to_fit", t, r)
    /\ UNCHANGED alive

\* t.swap(u);
Swap(t, u) ==
    /\ Running /\ t \in alive /\ u \in alive
    /\ LET x == swap(objs[t], objs[u])
       IN /\ objs' = [[objs EXCEPT ![t] = x.self] EXCEPT ![u] = x.other]
          /\ last' = [op |-> "swap", obj |-> t, err |-> "none"]
    /\ faults' = {}
    /\ UNCHANGED <<prog, locals, heap, alive>>

\* t[i] = c; with i inside the string
IndexWrite(t, i, c) ==
    /\ Running /\ t \in alive /\ i < objs[t].m_size
    /\ \E r \in {index_write(World, objs[t], i, c)} : Finish("operator[]", t, r)
    /\ UNCHANGED alive

\* t.at(i); with any i
At(t, i) ==
    /\ Running /\ t \in alive
    /\ \E r \in {at(World, objs[t], i)} : Finish("at", t, r)
    /\ UNCHANGED alive

\* String t = u + s;  or, t being u,  u = u + s;  where s is a const char*
\* or the String whose c_str() it is
Plus(t, u, s, k, elide) ==
    /\ Running /\ t \in InUse /\ u \in alive /\ (t \in alive => t = u)
    /\ objs[u].m_size + SrcLen(s) <= Limit
    /\ \E r \in {operator_plus(World, objs[u], s, k, elide)} :
          /\ Met(k # 0, r)
          /\ IF r.err = "terminate" THEN Terminate("operator+", t)
             ELSE IF t \notin alive THEN Construct("operator+", t, r)
             ELSE /\ IF r.err # "none"
                     THEN Finish("operator+", t, Throw(r.W, objs[t], r.err))
                     ELSE \E x \in {operator_assign(r.W, objs[t], r.self)} :
                             Finish("operator+", t, x)
                  /\ UNCHANGED alive

Next ==
    \/ \E t \in Slots, refuse \in BOOLEAN : CtorDefault(t, refuse)
    \/ \E t \in Slots : \E s \in Arrays \cup Views(Slots \ {t}), refuse \in BOOLEAN :
          CtorCStr(t, s, refuse)
    \/ \E t, u \in Slots, refuse \in BOOLEAN : CtorCopy(t, u, refuse)
    \/ \E t, u \in Slots, refuse \in BOOLEAN : CtorMove(t, u, refuse)
    \/ \E t, u \in Slots, refuse \in BOOLEAN : AssignCopy(t, u, refuse)
    \/ \E t, u \in Slots, refuse \in BOOLEAN : AssignMove(t, u, refuse)
    \/ \E t \in Slots : Dtor(t)
    \/ \E t \in Slots : Clear(t)
    \/ \E t \in Slots, s \in Arrays, refuse \in BOOLEAN : Assign(t, s, refuse)
    \/ \E t \in Slots, c \in Byte, refuse \in BOOLEAN : PushBack(t, c, refuse)
    \/ \E t \in Slots : \E s \in Arrays \cup Views({t}), refuse \in BOOLEAN :
          \E junk \in Junk(t, s) : AppendTo(t, s, junk, refuse)
    \/ \E t \in Slots, n \in 0..MaxReserve, refuse \in BOOLEAN : Reserve(t, n, refuse)
    \/ \E t \in Slots, refuse \in BOOLEAN : ShrinkToFit(t, refuse)
    \/ \E t, u \in Slots : Swap(t, u)
    \/ \E t \in Slots, i \in 0..(MaxSize - 1), c \in Byte : IndexWrite(t, i, c)
    \/ \E t, u \in Slots : \E s \in Arrays \cup Views(Slots) : \E run \in PlusRunsOn(s) :
          Plus(t, u, s, run[1], run[2])

Spec == Init /\ [][Next]_vars

(***************************************************************************)
(* A calling program with one String that holds runs of one char: it is    *)
(* long enough for every branch of the growth policy and for every         *)
(* relation between a length, an argument of reserve and a capacity.       *)
(***************************************************************************)
Runs == {Lit(Append([i \in 1..k |-> 1], 0)) : k \in 0..MaxRun}

LongInit ==
    /\ prog = "long"
    /\ heap = [r \in RegionIds |-> [live |-> FALSE, mem |-> << >>]]
    /\ faults = {}
    /\ objs = [t \in Slots |-> NoStr]
    /\ alive = {}
    /\ last = [op |-> "start", obj |-> "a", err |-> "none"]
    /\ locals = << >>

LongNext ==
    \/ \E refuse \in BOOLEAN : CtorDefault("a", refuse)
    \/ \E s \in Runs, refuse \in BOOLEAN : CtorCStr("a", s, refuse)
    \/ Dtor("a")
    \/ \E refuse \in BOOLEAN : PushBack("a", 1, refuse)
    \/ \E s \in Runs, refuse \in BOOLEAN : AppendTo("a", s, << >>, refuse)
    \/ \E n \in 0..MaxRun, refuse \in BOOLEAN : Reserve("a", n, refuse)
    \/ \E refuse \in BOOLEAN : ShrinkToFit("a", refuse)

LongSpec == LongInit /\ [][LongNext]_vars

(***************************************************************************)
(* A calling program with two Strings that builds them, moves one into the *)
(* other, empties them and reads them through at().                        *)
(***************************************************************************)
ReadInit ==
    /\ prog = "read"
    /\ heap = [r \in RegionIds |-> [live |-> FALSE, mem |-> << >>]]
    /\ faults = {}
    /\ objs = [t \in Slots |-> NoStr]
    /\ alive = {}
    /\ last = [op |-> "start", obj |-> "a", err |-> "none"]
    /\ locals = << >>

ReadNext ==
    \/ \E t \in Slots, refuse \in BOOLEAN : CtorDefault(t, refuse)
    \/ \E t \in Slots, s \in Arrays, refuse \in BOOLEAN : CtorCStr(t, s, refuse)
    \/ \E t, u \in Slots, refuse \in BOOLEAN : CtorMove(t, u, refuse)
    \/ \E t \in Slots : Dtor(t)
    \/ \E t \in Slots : Clear(t)
    \/ \E t \in Slots, c \in Byte, refuse \in BOOLEAN : PushBack(t, c, refuse)
    \/ \E t \in Slots, i \in 0..MaxSize : At(t, i)

ReadSpec == ReadInit /\ [][ReadNext]_vars

(***************************************************************************)
(* A calling program that constructs an empty String and calls push_back   *)
(* on it in a loop; it counts its calls and the calls that moved m_data to *)
(* a new region.                                                           *)
(***************************************************************************)
LoopInit ==
    /\ prog = "loop"
    /\ heap = [r \in RegionIds |-> [live |-> FALSE, mem |-> << >>]]
    /\ faults = {}
    /\ objs = [t \in Slots |-> NoStr]
    /\ alive = {}
    /\ last = [op |-> "start", obj |-> "a", err |-> "none"]
    /\ locals = [pushes |-> 0, reallocs |-> 0]

\* String s;
LoopBegin == CtorDefault("a", FALSE)

\* s.push_back(c);
LoopPush(c) ==
    /\ "a" \in alive /\ locals.pushes < MaxPushes
    /\ \E r \in {push_back(World, objs["a"], c, FALSE)} :
          /\ r.err = "none"
          /\ last' = [op |-> "push_back", obj |-> "a", err |-> "none"]
          /\ heap' = r.W.heap
          /\ faults' = r.W.faults
          /\ objs' = [objs EXCEPT !["a"] = r.self]
          /\ locals' = [pushes |-> locals.pushes + 1,
                        reallocs |-> locals.reallocs
                                       + IF r.self.m_data # objs["a"].m_data THEN 1 ELSE 0]
    /\ UNCHANGED <<prog, alive>>

LoopNext == LoopBegin \/ LoopPush(1)

LoopSpec == LoopInit /\ [][LoopNext]_vars

(***************************************************************************)
(* namespace cstr of src/src/strings/string_utils.h.  A char array is the  *)
(* sequence of its chars; a pointer into it is an offset from its start.   *)
(* The routines that write return [mem, ok, ret]: the array afterwards,    *)
(* whether every write stayed inside it, and the offset returned.          *)
(***************************************************************************)
RECURSIVE length_loop(_, _)
\* while (*p != '\0') ++p;  with p at offset p of mem
length_loop(mem, p) ==
    IF p >= Len(mem) \/ mem[p + 1] = 0 THEN p ELSE length_loop(mem, p + 1)

\* std::size_t StringLength(const char* s)
StringLength(mem) == length_loop(mem, 0)

RECURSIVE copy_loop(_, _, _, _)
\* while ((*dst++ = *src++) != '\0') {}  with dst at offset d and src at offset k
copy_loop(dst, d, src, k) ==
    IF d >= Len(dst) \/ k >= Len(src) THEN [mem |-> dst, ok |-> FALSE]
    ELSE LET written == [dst EXCEPT ![d + 1] = src[k + 1]]
         IN IF src[k + 1] = 0 THEN [mem |-> written, ok |-> TRUE]
            ELSE copy_loop(written, d + 1, src, k + 1)

\* char* StringCopy(char* dst, const char* src)
StringCopy(dst, src) ==
    LET c == copy_loop(dst, 0, src, 0)
    IN [mem |-> c.mem, ok |-> c.ok, ret |-> 0]

\* StringCat that starts writing at dst instead of at dst's terminator
StringCat_from_start(dst, src) ==
    LET c == copy_loop(dst, 0, src, 0)
    IN [mem |-> c.mem, ok |-> c.ok, ret |-> 0]

\* char* StringCat(char* dst, const char* src)
StringCat(dst, src) ==
    LET p == length_loop(dst, 0)
        c == copy_loop(dst, p, src, 0)
    IN [mem |-> c.mem, ok |-> c.ok, ret |-> 0]

\* char* StringDuplicate(const char* src): [W, ret, err], ret the new pointer
StringDuplicate(W, src, refuse) ==
    LET n == StringLength(src)
    IN IF ~CanAlloc(W, refuse) THEN [W |-> W, ret |-> Null, err |-> "bad_alloc"]
       ELSE LET p == NewPtr(W)
                W1 == new_array(W, n + 1)
                c == StringCopy(W1.heap[p].mem, src)
            IN [W |-> [W1 EXCEPT !.heap[p].mem = c.mem], ret |-> p, err |-> "none"]

(***************************************************************************)
(* A calling program of the cstr routines, after demo_cstr_utils: it has a *)
(* zero-initialised array buf and a pointer dup, and calls the routines in *)
(* any order on literals, on buf and on the duplicate.  A write past the   *)
(* end of buf is recorded in faults and ends the exploration of that run.  *)
(***************************************************************************)
ZeroBuf == [i \in 1..BufLen |-> 0]

\* const char* arguments of the cstr caller: a literal or the duplicate
Sources ==
    {Lit(q) : q \in CStrings} \cup (IF locals.dup = Null THEN {} ELSE {View(locals.dup)})

CstrInit ==
    /\ prog = "cstr"
    /\ heap = [r \in RegionIds |-> [live |-> FALSE, mem |-> << >>]]
    /\ faults = {}
    /\ objs = [t \in Slots |-> NoStr]
    /\ alive = {}
    /\ last = [op |-> "start", obj |-> "buf", err |-> "none"]
    /\ locals = [buf |-> ZeroBuf, dup |-> Null, ret |-> 0]

\* a call that writes buf has returned
Wrote(op, r) ==
    /\ last' = [op |-> op, obj |-> "buf", err |-> "none"]
    /\ locals' = [locals EXCEPT !.buf = r.mem, !.ret = r.ret]
    /\ faults' = IF r.ok THEN {} ELSE {"overflow"}
    /\ UNCHANGED <<prog, heap, objs, alive>>

\* dup = StringDuplicate(s);
CallDuplicate(s, refuse) ==
    /\ faults = {} /\ locals.dup = Null
    /\ \E r \in {StringDuplicate(World, Mem(World, s), refuse)} :
          /\ Met(refuse, r)
          /\ last' = [op |-> "StringDuplicate", obj |-> "dup", err |-> r.err]
          /\ heap' = r.W.heap
          /\ locals' = [locals EXCEPT !.dup = r.ret, !.ret = r.ret]
    /\ UNCHANGED <<prog, faults, objs, alive>>

\* StringCopy(buf, s);
CallCopy(s) ==
    /\ faults = {}
    /\ \E r \in {StringCopy(locals.buf, Mem(World, s))} : Wrote("StringCopy", r)

\* StringCat(buf, s);
CallCat(s) ==
    /\ faults = {}
    /\ \E r \in {StringCat(locals.buf, Mem(World, s))} : Wrote("StringCat", r)

\* StringLength(buf)
CallLength ==
    /\ faults = {}
    /\ last' = [op |-> "StringLength", obj |-> "buf", err |-> "none"]
    /\ locals' = [locals EXCEPT !.ret = StringLength(locals.buf)]
    /\ UNCHANGED <<prog, heap, faults, objs, alive>>

\* delete[] dup;
CallDelete ==
    /\ faults = {} /\ locals.dup # Null
    /\ last' = [op |-> "delete[]", obj |-> "dup", err |-> "none"]
    /\ heap' = delete_array(World, locals.dup).heap
    /\ locals' = [locals EXCEPT !.dup = Null, !.ret = 0]
    /\ UNCHANGED <<prog, faults, objs, alive>>

CstrNext ==
    \/ \E s \in {Lit(q) : q \in CStrings}, refuse \in BOOLEAN : CallDuplicate(s, refuse)
    \/ \E s \in Sources : CallCopy(s)
    \/ \E s \in Sources : CallCat(s)
    \/ CallLength
    \/ CallDelete

CstrSpec == CstrInit /\ [][CstrNext]_vars

(***************************************************************************)
(* What a caller observes of a String o in heap h.                         *)
(***************************************************************************)
Region(h, o) == h[o.m_data]

\* the chars at offsets 0 .. m_size-1
Content(h, o) == SubSeq(Region(h, o).mem, 1, o.m_size)

Obs(h, o) == <<o.m_size, o.m_capacity, Content(h, o)>>

\* data[size] == '\0'
Terminated(h, o) ==
    /\ o.m_data \in RegionIds
    /\ Len(Region(h, o).mem) > o.m_size
    /\ Region(h, o).mem[o.m_size + 1] = 0

Mutators == {"assign", "append", "push_back", "clear", "operator[]", "reserve", "shrink_to_fit"}

(***************************************************************************)
(* C1.  After every completed operation, every live String has             *)
(* m_data[m_size] == '\0' and m_size <= m_capacity.                        *)
(***************************************************************************)
Inv_C1_Sentinel ==
    \A t \in alive : objs[t].m_size <= objs[t].m_capacity /\ Terminated(heap, objs[t])

\* a push_back that had to grow has just put the sentinel behind two chars
Wit_C1_Sentinel ==
    /\ last = [op |-> "push_back", obj |-> "a", err |-> "none"]
    /\ objs["a"].m_size = 2 /\ objs["a"].m_capacity > 2
    /\ Content(heap, objs["a"])[2] # 0

(***************************************************************************)
(* C2.  Every live String - default-constructed, cleared and moved-from    *)
(* ones too - holds a non-null region that is still allocated and is       *)
(* exactly m_capacity + 1 chars long; with capacity 0 that is one char,    *)
(* the sentinel.                                                           *)
(***************************************************************************)
Inv_C2_RegionSize ==
    \A t \in alive :
        /\ objs[t].m_data # Null
        /\ Region(heap, objs[t]).live
        /\ Len(Region(heap, objs[t]).mem) = objs[t].m_capacity + 1
        /\ objs[t].m_capacity = 0 => Region(heap, objs[t]).mem = <<0>>

\* b has just been moved into a: b is the moved-from String
Wit_C2_RegionSize ==
    /\ last = [op |-> "operator=(move)", obj |-> "a", err |-> "none"]
    /\ alive = {"a", "b"}
    /\ objs["b"].m_capacity = 0
    /\ objs["a"].m_capacity = 1 /\ objs["a"].m_size = 1

(***************************************************************************)
(* C3.  Between operations every allocated region is owned by exactly one  *)
(* live String: no two Strings hold the same region, no String holds a     *)
(* released region, no region is released twice and none is left           *)
(* allocated without an owner.                                             *)
(***************************************************************************)
Inv_C3_Ownership ==
    /\ \A t, u \in alive : t # u => objs[t].m_data # objs[u].m_data
    /\ \A t \in alive : objs[t].m_data \in RegionIds /\ heap[objs[t].m_data].live
    /\ \A r \in RegionIds : heap[r].live => \E t \in alive : objs[t].m_data = r
    /\ "double_free" \notin faults

\* a has just been copy-assigned from b, both holding a char
Wit_C3_Ownership ==
    /\ last = [op |-> "operator=(copy)", obj |-> "a", err |-> "none"]
    /\ alive = {"a", "b"}
    /\ objs["a"].m_size = 1 /\ objs["b"].m_size = 1

(***************************************************************************)
(* C4.  When the allocator fails during push_back, append, reserve or      *)
(* shrink_to_fit, the caller gets std::bad_alloc and the String, its       *)
(* region and the contents are exactly what they were before the call.     *)
(***************************************************************************)
Growers == {"push_back", "append", "reserve", "shrink_to_fit"}

Untouched == heap' = heap /\ objs' = objs /\ alive' = alive /\ faults' = {}

Thm_C4_StrongGrowth ==
    [][(last'.err = "bad_alloc" /\ last'.op \in Growers) => Untouched]_vars

\* a full String of one char was asked to take another and the allocator refused
Wit_C4_StrongGrowth ==
    /\ last = [op |-> "push_back", obj |-> "a", err |-> "bad_alloc"]
    /\ objs["a"].m_size = 1 /\ objs["a"].m_capacity = 1
    /\ Content(heap, objs["a"]) # <<0>>

(***************************************************************************)
(* C5.  Copy-assignment and the growing path of assign give the strong     *)
(* guarantee: when building the temporary fails on allocation, target and  *)
(* source are unchanged; when the allocation is granted the call cannot    *)
(* fail and the target holds exactly the source's content.                 *)
(***************************************************************************)
Thm_C5_StrongAssign ==
    [][ /\ (last'.err = "bad_alloc" /\ last'.op \in {"operator=(copy)", "assign"})
            => Untouched
        /\ \A t, u \in Slots :
              (/\ last'.op = "operator=(copy)" /\ last'.obj = t
               /\ FreeIds(World) # {}
               /\ AssignCopy(t, u, FALSE)) =>
                  /\ last'.err = "none"
                  /\ objs'[t].m_size = objs[u].m_size
                  /\ Content(heap', objs'[t]) = Content(heap, objs[u])
                  /\ u # t => Obs(heap', objs'[u]) = Obs(heap, objs[u])
        /\ \A t \in Slots, s \in Arrays \ {NullSrc} :
              (/\ last'.op = "assign" /\ last'.obj = t
               /\ SrcLen(s) > objs[t].m_capacity
               /\ FreeIds(World) # {}
               /\ Assign(t, s, FALSE)) =>
                  /\ last'.err = "none"
                  /\ objs'[t].m_size = SrcLen(s)
                  /\ Content(heap', objs'[t]) = SubSeq(s.mem, 1, SrcLen(s))
      ]_vars

\* a = b was refused the temporary: a still holds its own char
Wit_C5_StrongAssign ==
    /\ last = [op |-> "operator=(copy)", obj |-> "a", err |-> "bad_alloc"]
    /\ alive = {"a", "b"}
    /\ objs["a"].m_size = 1 /\ objs["b"].m_size = 1
    /\ Content(heap, objs["a"]) # Content(heap, objs["b"])

(***************************************************************************)
(* C6.  Move construction and move-assignment never fail, whatever the     *)
(* allocator does: no error is raised and the program is not terminated.   *)
(***************************************************************************)
Cex_C6_MoveNeverFails ==
    last.op \in {"String(String&&)", "operator=(move)"} => last.err = "none"

(***************************************************************************)
(* C7.  After B2 = move(B1), by construction or by assignment, B2 holds    *)
(* B1's former region, content, size and capacity, and B1 is in the state  *)
(* of a freshly default-constructed String: size 0, capacity 0, a region   *)
(* of one char holding the sentinel.                                       *)
(***************************************************************************)
EmptyHeap == [heap |-> [r \in RegionIds |-> [live |-> FALSE, mem |-> << >>]], faults |-> {}]

\* o in h is what String() constructs, but for the address
AsDefault(h, o) ==
    LET d == String_default(EmptyHeap, FALSE)
    IN /\ Obs(h, o) = Obs(d.W.heap, d.self)
       /\ Region(h, o) = Region(d.W.heap, d.self)

Thm_C7_MovedFrom ==
    [][\A t, u \in Slots :
          (/\ t # u
           /\ last'.err = "none" /\ last'.obj = t
           /\ last'.op \in {"String(String&&)", "operator=(move)"}
           /\ CtorMove(t, u, FALSE) \/ AssignMove(t, u, FALSE)) =>
              /\ objs'[t] = objs[u]
              /\ Obs(heap', objs'[t]) = Obs(heap, objs[u])
              /\ AsDefault(heap', objs'[u])
      ]_vars

\* b was move-constructed from a, which held a char
Wit_C7_MovedFrom ==
    /\ last = [op |-> "String(String&&)", obj |-> "b", err |-> "none"]
    /\ objs["b"].m_size = 1 /\ Content(heap, objs["b"]) # <<0>>
    /\ objs["a"].m_size = 0 /\ objs["a"].m_capacity = 0

(***************************************************************************)
(* C8.  After B2 = copy(B1), by construction or by assignment, B2 has the  *)
(* size and the chars of B1; and an assign, append, push_back, clear,      *)
(* indexed write, reserve or shrink_to_fit on one String leaves size,      *)
(* capacity and content of every other String unchanged.                   *)
(***************************************************************************)
Thm_C8_CopyIndependent ==
    [][ /\ \A t, u \in Slots :
              (/\ last'.err = "none" /\ last'.obj = t
               /\ last'.op \in {"String(const String&)", "operator=(copy)"}
               /\ CtorCopy(t, u, FALSE) \/ AssignCopy(t, u, FALSE)) =>
                  /\ Region(heap', objs'[t]).live
                  /\ objs'[t].m_size = objs[u].m_size
                  /\ Content(heap', objs'[t]) = Content(heap, objs[u])
        /\ last'.op \in Mutators =>
              \A u \in alive \ {last'.obj} :
                  /\ Region(heap', objs'[u]).live
                  /\ Obs(heap', objs'[u]) = Obs(heap, objs[u])
      ]_vars

\* b was copy-constructed from a, which held a char
Wit_C8_CopyIndependent ==
    /\ last = [op |-> "String(const String&)", obj |-> "b", err |-> "none"]
    /\ objs["a"].m_size = 1
    /\ Content(heap, objs["b"]) = Content(heap, objs["a"])
    /\ Content(heap, objs["b"]) # <<0>>

(***************************************************************************)
(* C9.  For any two Strings a and b (push_back accepts any char value),    *)
(* a + b is a String of size a.size() + b.size() holding a's chars         *)
(* followed by b's chars, with a and b unchanged.                          *)
(***************************************************************************)
Cex_C9_Concatenation ==
    [][\A u, v \in Slots : \A t \in Slots \ {u, v} : \A run \in PlusRuns :
          (/\ v \in alive
           /\ last' = [op |-> "operator+", obj |-> t, err |-> "none"]
           /\ Plus(t, u, View(objs[v].m_data), run[1], run[2])) =>
              /\ objs'[t].m_size = objs[u].m_size + objs[v].m_size
              /\ Content(heap', objs'[t]) = Content(heap, objs[u]) \o Content(heap, objs[v])
              /\ Obs(heap', objs'[u]) = Obs(heap, objs[u])
              /\ Obs(heap', objs'[v]) = Obs(heap, objs[v])
      ]_vars

(***************************************************************************)
(* C10.  append(X) on a String of length L, X being a non-null             *)
(* sentinel-terminated input of length K, yields length L + K: the first   *)
(* L chars are unchanged, the next K chars are X and the sentinel follows, *)
(* whether or not the region had to grow.                                  *)
(***************************************************************************)
Cex_C10_AppendLaw ==
    [][\A t \in Slots : \A s \in (Arrays \ {NullSrc}) \cup Views({t}) : \A junk \in Junk(t, s) :
          (/\ last' = [op |-> "append", obj |-> t, err |-> "none"]
           /\ AppendTo(t, s, junk, FALSE)) =>
              LET L == objs[t].m_size
                  K == SrcLen(s)
                  X == SubSeq(Mem(World, s), 1, K)
                  now == Content(heap', objs'[t])
              IN /\ objs'[t].m_size = L + K
                 /\ SubSeq(now, 1, L) = Content(heap, objs[t])
                 /\ SubSeq(now, L + 1, L + K) = X
                 /\ Terminated(heap', objs'[t])
      ]_vars

(***************************************************************************)
(* C18.  In every state of a String, empty and moved-from included, at(i)  *)
(* with i >= size() throws std::out_of_range and changes nothing, and      *)
(* at(i) with i < size() returns the char at offset i; at(size()) never    *)
(* gives access to the terminator.                                         *)
(***************************************************************************)
Deref(h, ref) == h[ref.reg].mem[ref.off + 1]

Thm_C18_CheckedAccess ==
    [][\A t \in Slots : \A i \in 0..MaxSize :
          (/\ last'.op = "at" /\ last'.obj = t
           /\ At(t, i)) =>
              /\ Untouched
              /\ IF i >= objs[t].m_size
                 THEN last'.err = "out_of_range"
                 ELSE /\ last'.err = "none"
                      /\ at(World, objs[t], i).ref = [reg |-> objs[t].m_data, off |-> i]
                      /\ Deref(heap', at(World, objs[t], i).ref) = Content(heap, objs[t])[i + 1]
      ]_vars

\* at(0) was just refused on the moved-from b
Wit_C18_CheckedAccess ==
    /\ last = [op |-> "at", obj |-> "b", err |-> "out_of_range"]
    /\ alive = {"a", "b"}
    /\ objs["b"].m_size = 0 /\ objs["b"].m_capacity = 0
    /\ objs["a"].m_size = 1

(***************************************************************************)
(* C19.  A null source given to the converting constructor, assign or      *)
(* append                                                                  *)
(* throws std::invalid_argument before anything is allocated or written:   *)
(* assign and append leave the String and the heap unchanged, and the      *)
(* constructor leaves no String and no region behind.                      *)
(***************************************************************************)
Thm_C19_NullSource ==
    [][ /\ last'.err = "invalid_argument" => Untouched
        /\ \A t \in Slots :
              (/\ last'.obj = t
               /\ last'.op \in {"String(const char*)", "assign", "append"}
               /\ \/ CtorCStr(t, NullSrc, FALSE)
                  \/ Assign(t, NullSrc, FALSE)
                  \/ AppendTo(t, NullSrc, << >>, FALSE)) =>
                  /\ last'.err = "invalid_argument"
                  /\ \A refuse \in BOOLEAN :
                        /\ String_cstr(World, NullSrc, refuse) = Throw(World, NoStr, "invalid_argument")
                        /\ t \in alive =>
                              /\ assign(World, objs[t], NullSrc, refuse)
                                    = Throw(World, objs[t], "invalid_argument")
                              /\ append(World, objs[t], NullSrc, << >>, refuse)
                                    = Throw(World, objs[t], "invalid_argument")
      ]_vars

\* String b(nullptr) was just refused: a keeps its char, b does not exist
Wit_C19_NullSource ==
    /\ last = [op |-> "String(const char*)", obj |-> "b", err |-> "invalid_argument"]
    /\ alive = {"a"}
    /\ objs["a"].m_size = 1
    /\ Cardinality({r \in RegionIds : heap[r].live}) = 1

(***************************************************************************)
(* C11.  When push_back or append needs a size desired above the capacity, *)
(* the capacity after the call is max(desired, capacity * 3 / 2 + 8) in    *)
(* integer arithmetic if the capacity was not 0, and desired if it was 0;  *)
(* when desired <= capacity nothing is reallocated and the capacity stays. *)
(***************************************************************************)
Max(x, y) == IF x >= y THEN x ELSE y

Grown(t, desired) ==
    LET cap == objs[t].m_capacity
    IN IF desired <= cap
       THEN /\ objs'[t].m_capacity = cap
            /\ objs'[t].m_data = objs[t].m_data
            /\ \A r \in RegionIds : heap'[r].live = heap[r].live
       ELSE /\ objs'[t].m_capacity =
                  IF cap = 0 THEN desired ELSE Max(desired, (cap * 3) \div 2 + 8)
            /\ objs'[t].m_data # objs[t].m_data

Thm_C11_GrowthFormula ==
    [][\A t \in Slots :
          /\ (/\ last' = [op |-> "push_back", obj |-> t, err |-> "none"]
              /\ \E c \in Byte : PushBack(t, c, FALSE)) =>
                 Grown(t, objs[t].m_size + 1)
          /\ \A s \in Runs \cup (Arrays \ {NullSrc}) :
                (/\ last' = [op |-> "append", obj |-> t, err |-> "none"]
                 /\ AppendTo(t, s, << >>, FALSE)) =>
                    Grown(t, objs[t].m_size + SrcLen(s))
      ]_vars

\* an append has just grown a String of capacity 2: 2 * 3 / 2 + 8 = 11
Wit_C11_GrowthFormula ==
    /\ last = [op |-> "append", obj |-> "a", err |-> "none"]
    /\ objs["a"].m_capacity = 11
    /\ objs["a"].m_size >= 3

(***************************************************************************)
(* C14.  reserve(n) never changes size or content.  With n <= capacity it  *)
(* changes nothing at all; with n > capacity the chars and the terminator  *)
(* move into a new region and the capacity becomes exactly n.              *)
(***************************************************************************)
Thm_C14_Reserve ==
    [][\A t \in Slots : \A n \in 0..MaxRun :
          (/\ last' = [op |-> "reserve", obj |-> t, err |-> "none"]
           /\ Reserve(t, n, FALSE)) =>
              /\ objs'[t].m_size = objs[t].m_size
              /\ Region(heap', objs'[t]).live
              /\ Content(heap', objs'[t]) = Content(heap, objs[t])
              /\ Terminated(heap', objs'[t])
              /\ IF n <= objs[t].m_capacity
                 THEN objs' = objs /\ heap' = heap
                 ELSE /\ objs'[t].m_capacity = n
                      /\ objs'[t].m_data # objs[t].m_data
                      /\ ~heap'[objs[t].m_data].live
      ]_vars

\* reserve(7) has just moved three chars
Wit_C14_Reserve ==
    /\ last = [op |-> "reserve", obj |-> "a", err |-> "none"]
    /\ objs["a"].m_capacity = 7
    /\ objs["a"].m_size = 3

(***************************************************************************)
(* C12.  N push_back calls on an initially empty String reallocate         *)
(* O(log N) times: every reallocation after the first raises the capacity  *)
(* to at least 3/2 of what it was, the number of reallocations is at most  *)
(* 2 + log_{3/2}(N), and it is less than N for every N >= 3.               *)
(***************************************************************************)
\* r <= 2 + log_{3/2}(n), in integers: (3/2)^(r-2) <= n
WithinLog(r, n) == r <= 2 \/ 3^(r - 2) <= n * 2^(r - 2)

Thm_C12_Amortized ==
    /\ [](/\ locals.pushes >= 1 => WithinLog(locals.reallocs, locals.pushes)
          /\ locals.pushes >= 3 => locals.reallocs < locals.pushes
          /\ locals.pushes = 0 => locals.reallocs = 0)
    /\ [][(locals'.reallocs # locals.reallocs /\ objs["a"].m_capacity > 0) =>
              2 * objs'["a"].m_capacity >= 3 * objs["a"].m_capacity]_vars

\* 100 calls, and the sixth reallocation (to capacity 107) is behind
Wit_C12_Amortized ==
    /\ locals.pushes = 100
    /\ locals.reallocs = 6
    /\ objs["a"].m_size = 100

(***************************************************************************)
(* C13.  The exact-fit paths leave no slack: right after construction from *)
(* a char sequence, after copy construction and after a successful         *)
(* shrink_to_fit, whatever the slack before, capacity() == size(), and     *)
(* size and content are those of the source, or of the String before.      *)
(***************************************************************************)
\* the chars of s before its terminator
Chars(s) == SubSeq(Mem(World, s), 1, SrcLen(s))

Thm_C13_ExactFit ==
    [][\A t \in Slots :
          /\ \A s \in Arrays \ {NullSrc} :
                (/\ last' = [op |-> "String(const char*)", obj |-> t, err |-> "none"]
                 /\ CtorCStr(t, s, FALSE)) =>
                    /\ objs'[t].m_capacity = objs'[t].m_size
                    /\ objs'[t].m_size = SrcLen(s)
                    /\ Content(heap', objs'[t]) = Chars(s)
          /\ \A u \in Slots :
                (/\ last' = [op |-> "String(const String&)", obj |-> t, err |-> "none"]
                 /\ CtorCopy(t, u, FALSE)) =>
                    /\ objs'[t].m_capacity = objs'[t].m_size
                    /\ objs'[t].m_size = objs[u].m_size
                    /\ Content(heap', objs'[t]) = Content(heap, objs[u])
          /\ (/\ last' = [op |-> "shrink_to_fit", obj |-> t, err |-> "none"]
              /\ ShrinkToFit(t, FALSE)) =>
                 /\ objs'[t].m_capacity = objs'[t].m_size
                 /\ objs'[t].m_size = objs[t].m_size
                 /\ Region(heap', objs'[t]).live
                 /\ Content(heap', objs'[t]) = Content(heap, objs[t])
                 /\ Terminated(heap', objs'[t])
      ]_vars

\* shrink_to_fit has just returned on a String of two chars, the second one
\* written by push_back or operator[]
Wit_C13_ExactFit ==
    /\ last = [op |-> "shrink_to_fit", obj |-> "a", err |-> "none"]
    /\ objs["a"].m_size = 2 /\ objs["a"].m_capacity = 2
    /\ Content(heap, objs["a"])[2] = 0

(***************************************************************************)
(* C15.  assign(S) with length(S) <= capacity works in place: the String   *)
(* keeps its region and its capacity, size == length(S) and the content is *)
(* exactly S.                                                              *)
(***************************************************************************)
Thm_C15_AssignInPlace ==
    [][\A t \in Slots : \A s \in Arrays \ {NullSrc} :
          (/\ last' = [op |-> "assign", obj |-> t, err |-> "none"]
           /\ SrcLen(s) <= objs[t].m_capacity
           /\ Assign(t, s, FALSE)) =>
              /\ objs'[t].m_data = objs[t].m_data
              /\ objs'[t].m_capacity = objs[t].m_capacity
              /\ \A r \in RegionIds : heap'[r].live = heap[r].live
              /\ objs'[t].m_size = SrcLen(s)
              /\ Content(heap', objs'[t]) = Chars(s)
              /\ Terminated(heap', objs'[t])
              /\ assign(World, objs[t], s, TRUE).err = "none"
      ]_vars

\* a String of capacity 2 has just been assigned one char
Wit_C15_AssignInPlace ==
    /\ last = [op |-> "assign", obj |-> "a", err |-> "none"]
    /\ objs["a"].m_size = 1 /\ objs["a"].m_capacity = 2

(***************************************************************************)
(* C16.  assign(S) with length(S) > capacity replaces the contents by an   *)
(* exact-fit allocation and an exchange: afterwards the content is exactly *)
(* S, size == capacity == length(S), and the old region is released.       *)
(***************************************************************************)
Thm_C16_AssignGrowing ==
    [][\A t \in Slots : \A s \in Arrays \ {NullSrc} :
          (/\ last' = [op |-> "assign", obj |-> t, err |-> "none"]
           /\ SrcLen(s) > objs[t].m_capacity
           /\ Assign(t, s, FALSE)) =>
              /\ objs'[t].m_size = SrcLen(s)
              /\ objs'[t].m_capacity = SrcLen(s)
              /\ Region(heap', objs'[t]).live
              /\ Content(heap', objs'[t]) = Chars(s)
              /\ Terminated(heap', objs'[t])
              /\ objs'[t].m_data # objs[t].m_data
              /\ ~heap'[objs[t].m_data].live
              /\ \A r \in RegionIds \ {objs[t].m_data, objs'[t].m_data} : heap'[r] = heap[r]
      ]_vars

\* two chars have just been assigned to a String that was moved to its second
\* region on the way
Wit_C16_AssignGrowing ==
    /\ last = [op |-> "assign", obj |-> "a", err |-> "none"]
    /\ prog = "one"
    /\ objs["a"].m_size = 2 /\ objs["a"].m_capacity = 2
    /\ objs["a"].m_data = 2

(***************************************************************************)
(* C17.  A String constructed from any non-null terminated sequence S, the *)
(* empty one included, reads back as S: size() == length(S) and the chars  *)
(* at 0 .. size()-1 of c_str() are S; the caller's sequence is neither     *)
(* modified nor owned by the String.                                       *)
(***************************************************************************)
Thm_C17_RoundTrip ==
    [][\A t \in Slots : \A s \in (Arrays \ {NullSrc}) \cup Views(Slots \ {t}) :
          (/\ last' = [op |-> "String(const char*)", obj |-> t, err |-> "none"]
           /\ CtorCStr(t, s, FALSE)) =>
              /\ objs'[t].m_size = Len(Chars(s))
              /\ strlen(Region(heap', objs'[t]).mem) = Len(Chars(s))
              /\ Content(heap', objs'[t]) = Chars(s)
              /\ \A u \in alive : objs'[u] = objs[u]
              /\ s.kind = "view" =>
                    /\ heap'[s.reg] = heap[s.reg]
                    /\ objs'[t].m_data # s.reg
      ]_vars

\* b has just been constructed from a.c_str(), a holding one char
Wit_C17_RoundTrip ==
    /\ last = [op |-> "String(const char*)", obj |-> "b", err |-> "none"]
    /\ alive = {"a", "b"}
    /\ objs["a"].m_size = 1 /\ objs["b"].m_size = 1
    /\ Content(heap, objs["a"]) = Content(heap, objs["b"])
    /\ Content(heap, objs["b"]) # <<0>>

(***************************************************************************)
(* C20.  For the cstr routines, with dst terminated and large enough:      *)
(* StringCat(dst, src) leaves the first StringLength(dst) chars of dst     *)
(* unchanged, writes the chars of src and its terminator right after them, *)
(* returns the start of dst, and the length of the result is the sum of    *)
(* the two lengths.  StringCopy(buf, X) followed by                        *)
(* StringCat(buf, StringDuplicate(Y)) gives X followed by Y, of length     *)
(* length(X) + length(Y), and the duplicate is a separate region equal to  *)
(* its source.                                                             *)
(***************************************************************************)
\* dst has room for the chars of src and a terminator from offset from on
Fits(dst, from, src) == from + StringLength(src) + 1 <= Len(dst)

\* the scenario of demo_cstr_utils, on every pair of literals that fits
Interplay ==
    \A x, y \in CStrings :
        LET d == StringDuplicate(EmptyHeap, y, FALSE)
            b1 == StringCopy(ZeroBuf, x)
            b2 == StringCat(b1.mem, d.W.heap[d.ret].mem)
            n == StringLength(x) + StringLength(y)
        IN Fits(ZeroBuf, StringLength(x), y) =>
              /\ d.err = "none" /\ d.W.heap[d.ret].mem = y
              /\ b1.ok /\ b2.ok
              /\ SubSeq(b2.mem, 1, n + 1) = SubSeq(x, 1, StringLength(x)) \o y
              /\ StringLength(b2.mem) = n

Thm_C20_CstrRoutines ==
    /\ []Interplay
    /\ [][ /\ \A s \in Sources :
                 (/\ last'.op = "StringCat"
                  /\ CallCat(s)
                  /\ Fits(locals.buf, StringLength(locals.buf), Mem(World, s))) =>
                     LET L == StringLength(locals.buf)
                         K == StringLength(Mem(World, s))
                     IN /\ faults' = {}
                        /\ SubSeq(locals'.buf, 1, L) = SubSeq(locals.buf, 1, L)
                        /\ SubSeq(locals'.buf, L + 1, L + K + 1) = SubSeq(Mem(World, s), 1, K + 1)
                        /\ SubSeq(locals'.buf, L + K + 2, BufLen)
                              = SubSeq(locals.buf, L + K + 2, BufLen)
                        /\ locals'.ret = 0
                        /\ StringLength(locals'.buf) = L + K
                        /\ heap' = heap
           /\ \A s \in Sources :
                 (/\ last'.op = "StringCopy"
                  /\ CallCopy(s)
                  /\ Fits(locals.buf, 0, Mem(World, s))) =>
                     LET K == StringLength(Mem(World, s))
                     IN /\ faults' = {}
                        /\ SubSeq(locals'.buf, 1, K + 1) = SubSeq(Mem(World, s), 1, K + 1)
                        /\ locals'.ret = 0
                        /\ heap' = heap
           /\ \A q \in CStrings :
                 (/\ last' = [op |-> "StringDuplicate", obj |-> "dup", err |-> "none"]
                  /\ CallDuplicate(Lit(q), FALSE)) =>
                     /\ locals'.dup \in RegionIds
                     /\ ~heap[locals'.dup].live
                     /\ heap'[locals'.dup] = [live |-> TRUE, mem |-> q]
                     /\ locals'.buf = locals.buf
           /\ (last'.op = "StringLength" /\ CallLength) =>
                 /\ locals'.ret <= BufLen
                 /\ \A i \in 1..locals'.ret : locals.buf[i] # 0
                 /\ locals'.ret < BufLen => locals.buf[locals'.ret + 1] = 0
                 /\ locals'.buf = locals.buf
         ]_vars

\* StringCat(buf, dup) has just returned: buf holds two chars followed by the two
\* of the duplicate
Wit_C20_CstrRoutines ==
    /\ last = [op |-> "StringCat", obj |-> "buf", err |-> "none"]
    /\ faults = {}
    /\ locals.dup # Null
    /\ StringLength(locals.buf) = 4
    /\ SubSeq(locals.buf, 3, 5) = heap[locals.dup].mem
    /\ locals.buf[1] # locals.buf[2]

(***************************************************************************)
(* C21.  append(s) never reads from a region after that region has been    *)
(* released, for every non-null sentinel-terminated source s, the String's *)
(* own c_str() included; when s is the String's own c_str() and the append *)
(* has to grow the region, the result is the old content followed by a     *)
(* copy of the chars s held when append was called.                        *)
(***************************************************************************)
Cex_C21_AppendReadsLive ==
    [][\A t \in Slots : \A s \in (Arrays \ {NullSrc}) \cup Views({t}) :
       \A junk \in Junk(t, s), refuse \in BOOLEAN :
          (/\ last'.op = "append" /\ last'.obj = t
           /\ AppendTo(t, s, junk, refuse)) =>
              /\ "read_released" \notin faults'
              /\ (/\ last'.err = "none"
                  /\ s.kind = "view"
                  /\ objs[t].m_size + SrcLen(s) > objs[t].m_capacity) =>
                     /\ Region(heap', objs'[t]).live
                     /\ Content(heap', objs'[t])
                           = Content(heap, objs[t]) \o SubSeq(Mem(World, s), 1, SrcLen(s))
      ]_vars

====
